---- MODULE Spec2Model ----
(***************************************************************************)
(* Model of Scripts/assignFASTAheaders_GEMs.py: a script that copies a     *)
(* FASTA file, prefixing every header line with a user-defined string.     *)
(*                                                                         *)
(* Text is modelled as sequences of one-character strings.  Files are      *)
(* opened in Python's text mode on a POSIX system: reading decodes the     *)
(* line terminators \n, \r and \r\n to \n, writing stores \n as it is.     *)
(* The identifier is taken from the domain the script documents for it     *)
(* ("without spaces or special characters").                               *)
(***************************************************************************)
EXTENDS Integers, Sequences, FiniteSets, TLC

VARIABLES argv, fs, unreadable, unwritable,
          input_fasta, base, out_full, output_fasta, user_string,
          infile, outfile, pc, runs

vars == <<argv, fs, unreadable, unwritable,
          input_fasta, base, out_full, output_fasta, user_string,
          infile, outfile, pc, runs>>

(***************************************************************************)
(* Characters                                                              *)
(***************************************************************************)
GT == ">"
LF == "\n"
CR == "\r"
SP == " "
DOT == "."
SEP == "/"
US == "_"

Whitespace == {SP, LF, CR}

(***************************************************************************)
(* Bounds of the model                                                     *)
(***************************************************************************)
MaxLen == 3
MaxIdLen == 1
MaxPathLen == 5
MaxRuns == 2

SeqsUpTo(S, n) == UNION {[1..k -> S] : k \in 0..n}

FileAlphabet == {GT, "A", SP, LF, CR}
IdAlphabet == {"x", "y"}
PathAlphabet == {"a", DOT, SEP}

Contents == SeqsUpTo(FileAlphabet, MaxLen)
Identifiers == SeqsUpTo(IdAlphabet, MaxIdLen) \ {<<>>}

PathTails == {<<>>,
              <<DOT, "a">>,
              <<DOT, "f", "a", "s", "t", "a">>,
              <<US, "e", "d", "i", "t", DOT, "f", "a", "s", "t", "a">>}
PathInputs == {p \o t : p \in SeqsUpTo(PathAlphabet, MaxPathLen), t \in PathTails}

Script == <<"s">>
RunPath == <<"a", DOT, "a">>
OldData == <<"A", LF, GT>>
PathData == <<GT, "A", LF, "A">>
PathId == <<"x">>

(***************************************************************************)
(* String functions of the Python runtime used by the script               *)
(***************************************************************************)
StartsWith(s, p) == Len(p) <= Len(s) /\ SubSeq(s, 1, Len(p)) = p

RECURSIVE LStrip(_)
LStrip(s) == IF s # <<>> /\ s[1] \in Whitespace THEN LStrip(Tail(s)) ELSE s

RECURSIVE RStrip(_)
RStrip(s) ==
    IF s # <<>> /\ s[Len(s)] \in Whitespace
    THEN RStrip(SubSeq(s, 1, Len(s) - 1))
    ELSE s

\* str.strip(): removes every leading and trailing whitespace character.
Strip(s) == LStrip(RStrip(s))

\* re.sub(c, repl, s) for a one-character pattern: every occurrence replaced.
RECURSIVE ReSub(_, _, _)
ReSub(c, repl, s) ==
    IF s = <<>> THEN <<>>
    ELSE (IF s[1] = c THEN repl ELSE <<s[1]>>) \o ReSub(c, repl, Tail(s))

\* str.split(c): the segments between the occurrences of c.
RECURSIVE Split(_, _)
Split(s, c) ==
    IF \A i \in 1..Len(s) : s[i] # c THEN <<s>>
    ELSE LET i == CHOOSE j \in 1..Len(s) :
                     s[j] = c /\ \A k \in 1..(j - 1) : s[k] # c
         IN  <<SubSeq(s, 1, i - 1)>> \o Split(SubSeq(s, i + 1, Len(s)), c)

\* c.join(segs)
RECURSIVE Join(_, _)
Join(c, segs) ==
    IF segs = <<>> THEN <<>>
    ELSE IF Len(segs) = 1 THEN segs[1]
    ELSE segs[1] \o <<c>> \o Join(c, Tail(segs))

\* segs[:-1]
DropLast(segs) == SubSeq(segs, 1, Len(segs) - 1)

\* Index of the last occurrence of c in s, 0 when there is none (str.rfind + 1).
RFind(s, c) ==
    IF \A i \in 1..Len(s) : s[i] # c THEN 0
    ELSE CHOOSE j \in 1..Len(s) : s[j] = c /\ \A k \in (j + 1)..Len(s) : s[k] # c

\* os.path.basename(p): what follows the last separator.
Basename(p) == SubSeq(p, RFind(p, SEP) + 1, Len(p))

\* os.path.splitext(b)[0] for a name without separator: the name up to its
\* last dot, unless only dots precede that dot.
SplitextRoot(b) ==
    LET d == RFind(b, DOT)
    IN  IF d > 0 /\ \E k \in 1..(d - 1) : b[k] # DOT
        THEN SubSeq(b, 1, d - 1)
        ELSE b

(***************************************************************************)
(* Text-mode file reading: lines of a file                                 *)
(***************************************************************************)
\* Index of the last character of the first line of a non-empty d.
LineEnd(d) ==
    IF \A i \in 1..Len(d) : d[i] \notin {LF, CR} THEN Len(d)
    ELSE LET i == CHOOSE j \in 1..Len(d) :
                     d[j] \in {LF, CR} /\ \A k \in 1..(j - 1) : d[k] \notin {LF, CR}
         IN  IF d[i] = CR /\ i < Len(d) /\ d[i + 1] = LF THEN i + 1 ELSE i

\* The lines of d as stored, each with the terminator it has in the file.
RECURSIVE RawLines(_)
RawLines(d) ==
    IF d = <<>> THEN <<>>
    ELSE <<SubSeq(d, 1, LineEnd(d))>> \o RawLines(SubSeq(d, LineEnd(d) + 1, Len(d)))

\* Universal-newline decoding of one stored line: \r\n and \r become \n.
Decode(raw) ==
    LET n == Len(raw)
    IN  IF n >= 2 /\ raw[n - 1] = CR /\ raw[n] = LF
        THEN SubSeq(raw, 1, n - 2) \o <<LF>>
        ELSE IF n >= 1 /\ raw[n] = CR
        THEN SubSeq(raw, 1, n - 1) \o <<LF>>
        ELSE raw

\* The lines an iteration over a file opened with mode "r" yields.
TextLines(d) == [i \in 1..Len(RawLines(d)) |-> Decode(RawLines(d)[i])]

(***************************************************************************)
(* The script                                                              *)
(***************************************************************************)
Suffix == <<US, "e", "d", "i", "t", DOT, "f", "a", "s", "t", "a">>

HasArgDefaulted(a, k) == TRUE

\* sys.argv[k] exists
HasArg(a, k) == Len(a) > k

\* sys.argv[k]
Arg(a, k) == IF Len(a) > k THEN a[k + 1] ELSE <<>>

OutputFastaPathFirstSegment(path) == Split(path, DOT)[1] \o Suffix

OutputFastaPathKeepSuffix(path) ==
    Join(DOT, DropLast(Split(path, DOT))) \o <<DOT, "f", "a", "s", "t", "a">>

\* line 60
OutputFastaPath(path) == Join(DOT, DropLast(Split(path, DOT))) \o Suffix

IsHeaderAfterStrip(line) == StartsWith(LStrip(line), <<GT>>)

\* line 72
IsHeader(line) == StartsWith(line, <<GT>>)

RewriteHeaderNoNewline(id, line) ==
    <<GT>> \o id \o <<US>> \o ReSub(GT, <<>>, Strip(line))

\* lines 74-81: what is written for a header line
RewriteHeader(id, line) ==
    LET header == ReSub(GT, <<>>, Strip(line))
        new_header == id \o <<US>> \o header
    IN  <<GT>> \o new_header \o <<LF>>

CopyLineStripped(id, line) == RStrip(line) \o <<LF>>

\* line 84: what is written for a sequence line
CopyLine(id, line) == line

\* What one iteration of the loop writes for a line
RewriteLine(id, line) ==
    IF IsHeader(line) THEN RewriteHeader(id, line) ELSE CopyLine(id, line)

\* A path that can name a regular file: not empty, not ending with the
\* separator, its last component neither "." nor "..".
IsFilePath(p) ==
    /\ p # <<>>
    /\ p[Len(p)] # SEP
    /\ Basename(p) \notin {<<DOT>>, <<DOT, DOT>>}

\* File handles
Unbound == [status |-> "unbound", path |-> <<>>, pos |-> 0]

FileData(p) == IF p \in DOMAIN fs THEN fs[p] ELSE <<>>

CanRead(p) == p \in DOMAIN fs /\ p \notin unreadable

CanWrite(p) == p # <<>> /\ p \notin unwritable

OpenForAppend(f, p) ==
    [q \in DOMAIN f \cup {p} |-> IF q \in DOMAIN f THEN f[q] ELSE <<>>]

\* open(path, "w"): the file is created or truncated
OpenForWrite(f, p) == [q \in DOMAIN f \cup {p} |-> IF q = p THEN <<>> ELSE f[q]]

\* outfile.write(s)
WriteTo(f, p, s) == [f EXCEPT ![p] = @ \o s]

ReleaseNothing(h) == h

\* leaving the with statement closes a handle that was opened
Release(h) == IF h.status = "open" THEN [h EXCEPT !.status = "closed"] ELSE h

Init ==
    /\ \E path \in {RunPath}, args \in {<<>>} \cup {<<i>> : i \in Identifiers},
          given \in BOOLEAN :
          argv = IF given THEN <<Script, path>> \o args ELSE <<Script>>
    /\ \E inp \in {<<>>} \cup {<<c>> : c \in Contents},
          outp \in {<<>>, <<OldData>>} :
          fs = [p \in (IF inp = <<>> THEN {} ELSE {RunPath})
                        \cup (IF outp = <<>> THEN {} ELSE {OutputFastaPath(RunPath)})
                   |-> IF p = RunPath THEN inp[1] ELSE outp[1]]
    /\ unreadable \in SUBSET {RunPath}
    /\ unwritable \in SUBSET {OutputFastaPath(RunPath)}
    /\ input_fasta = <<>>
    /\ base = <<>>
    /\ out_full = <<>>
    /\ output_fasta = <<>>
    /\ user_string = <<>>
    /\ infile = Unbound
    /\ outfile = Unbound
    /\ pc = "l56"
    /\ runs = 1

\* line 56: input_fasta = sys.argv[1]
LoadInputFasta ==
    /\ pc = "l56"
    /\ IF HasArg(argv, 1)
       THEN input_fasta' = Arg(argv, 1) /\ pc' = "l58"
       ELSE input_fasta' = input_fasta /\ pc' = "failed"
    /\ UNCHANGED <<argv, fs, unreadable, unwritable, base, out_full,
                   output_fasta, user_string, infile, outfile, runs>>

\* line 58: base = os.path.basename(input_fasta)
LoadBase ==
    /\ pc = "l58"
    /\ base' = Basename(input_fasta)
    /\ pc' = "l59"
    /\ UNCHANGED <<argv, fs, unreadable, unwritable, input_fasta, out_full,
                   output_fasta, user_string, infile, outfile, runs>>

\* line 59: out_full = os.path.splitext(base)[0]
LoadOutFull ==
    /\ pc = "l59"
    /\ out_full' = SplitextRoot(base)
    /\ pc' = "l60"
    /\ UNCHANGED <<argv, fs, unreadable, unwritable, input_fasta, base,
                   output_fasta, user_string, infile, outfile, runs>>

\* line 60: output_fasta = ".".join(input_fasta.split('.')[:-1]) + '_edit.fasta'
LoadOutputFasta ==
    /\ pc = "l60"
    /\ output_fasta' = OutputFastaPath(input_fasta)
    /\ pc' = "l63"
    /\ UNCHANGED <<argv, fs, unreadable, unwritable, input_fasta, base,
                   out_full, user_string, infile, outfile, runs>>

\* line 63: user_string = str(sys.argv[2])
LoadUserString ==
    /\ pc = "l63"
    /\ IF HasArg(argv, 2)
       THEN user_string' = Arg(argv, 2) /\ pc' = "open_in"
       ELSE user_string' = user_string /\ pc' = "failed"
    /\ UNCHANGED <<argv, fs, unreadable, unwritable, input_fasta, base,
                   out_full, output_fasta, infile, outfile, runs>>

\* line 68, first item: open(input_fasta, "r") as infile
OpenInfile ==
    /\ pc = "open_in"
    /\ IF CanRead(input_fasta)
       THEN /\ infile' = [status |-> "open", path |-> input_fasta, pos |-> 0]
            /\ pc' = "open_out"
       ELSE /\ infile' = infile
            /\ pc' = "failed"
    /\ UNCHANGED <<argv, fs, unreadable, unwritable, input_fasta, base,
                   out_full, output_fasta, user_string, outfile, runs>>

\* line 68, second item: open(output_fasta, "w") as outfile
OpenOutfile ==
    /\ pc = "open_out"
    /\ IF CanWrite(output_fasta)
       THEN /\ fs' = OpenForWrite(fs, output_fasta)
            /\ outfile' = [status |-> "open", path |-> output_fasta, pos |-> 0]
            /\ infile' = infile
            /\ pc' = "loop"
       ELSE /\ fs' = fs
            /\ outfile' = outfile
            /\ infile' = Release(infile)
            /\ pc' = "failed"
    /\ UNCHANGED <<argv, unreadable, unwritable, input_fasta, base,
                   out_full, output_fasta, user_string, runs>>

\* The line the next iteration of "for line in infile" gets
HasLine == infile.pos < Len(TextLines(FileData(infile.path)))
NextLine == TextLines(FileData(infile.path))[infile.pos + 1]

\* lines 70-81: an iteration on a header line
HeaderLine ==
    /\ pc = "loop"
    /\ HasLine
    /\ IsHeader(NextLine)
    /\ fs' = WriteTo(fs, outfile.path, RewriteHeader(user_string, NextLine))
    /\ infile' = [infile EXCEPT !.pos = @ + 1]
    /\ outfile' = [outfile EXCEPT !.pos = @ + 1]
    /\ UNCHANGED <<argv, unreadable, unwritable, input_fasta, base, out_full,
                   output_fasta, user_string, pc, runs>>

\* lines 70-72, 82-84: an iteration on a sequence line
SequenceLine ==
    /\ pc = "loop"
    /\ HasLine
    /\ ~IsHeader(NextLine)
    /\ fs' = WriteTo(fs, outfile.path, CopyLine(user_string, NextLine))
    /\ infile' = [infile EXCEPT !.pos = @ + 1]
    /\ outfile' = [outfile EXCEPT !.pos = @ + 1]
    /\ UNCHANGED <<argv, unreadable, unwritable, input_fasta, base, out_full,
                   output_fasta, user_string, pc, runs>>

\* line 68: the input is exhausted, the with statement closes both files
EndOfFile ==
    /\ pc = "loop"
    /\ ~HasLine
    /\ infile' = Release(infile)
    /\ outfile' = Release(outfile)
    /\ pc' = "done"
    /\ UNCHANGED <<argv, fs, unreadable, unwritable, input_fasta, base,
                   out_full, output_fasta, user_string, runs>>

\* The script is invoked again, on the file it has just written, with the
\* same user string.
Rerun ==
    /\ pc = "done"
    /\ runs < MaxRuns
    /\ argv' = <<Script, output_fasta, user_string>>
    /\ input_fasta' = <<>>
    /\ base' = <<>>
    /\ out_full' = <<>>
    /\ output_fasta' = <<>>
    /\ user_string' = <<>>
    /\ infile' = Unbound
    /\ outfile' = Unbound
    /\ pc' = "l56"
    /\ runs' = runs + 1
    /\ UNCHANGED <<fs, unreadable, unwritable>>

Next ==
    \/ LoadInputFasta
    \/ LoadBase
    \/ LoadOutFull
    \/ LoadOutputFasta
    \/ LoadUserString
    \/ OpenInfile
    \/ OpenOutfile
    \/ HeaderLine
    \/ SequenceLine
    \/ EndOfFile
    \/ Rerun

Spec == Init /\ [][Next]_vars

TypeOK ==
    /\ pc \in {"l56", "l58", "l59", "l60", "l63", "open_in", "open_out",
               "loop", "done", "failed"}
    /\ runs \in 1..MaxRuns

(***************************************************************************)
(* The derivation of the output path, over many input paths: a run on a    *)
(* fixed file stored under each path of PathInputs.                        *)
(***************************************************************************)
InitPath ==
    /\ \E path \in PathInputs :
          /\ argv = <<Script, path, PathId>>
          /\ fs = [p \in {q \in {path} : IsFilePath(q)} |-> PathData]
    /\ unreadable = {}
    /\ unwritable = {}
    /\ input_fasta = <<>>
    /\ base = <<>>
    /\ out_full = <<>>
    /\ output_fasta = <<>>
    /\ user_string = <<>>
    /\ infile = Unbound
    /\ outfile = Unbound
    /\ pc = "l56"
    /\ runs = 1

NextPath ==
    \/ LoadInputFasta
    \/ LoadBase
    \/ LoadOutFull
    \/ LoadOutputFasta
    \/ LoadUserString
    \/ OpenInfile
    \/ OpenOutfile
    \/ HeaderLine
    \/ SequenceLine
    \/ EndOfFile

SpecPath == InitPath /\ [][NextPath]_vars

(***************************************************************************)
(* Vocabulary of the properties                                            *)
(***************************************************************************)
\* The stored lines of the input and of the output of the current run
InLines == RawLines(FileData(input_fasta))
OutLines == RawLines(FileData(output_fasta))

\* The output file has been opened by the current run
Written == outfile.status # "unbound"

\* The output path has been derived
PathDerived == pc \notin {"l56", "l58", "l59", "l60"} /\ HasArg(argv, 1)

Min(a, b) == IF a < b THEN a ELSE b

\* Length of the terminator of a stored line: 0, 1 (\n or \r) or 2 (\r\n)
TermLen(raw) ==
    LET n == Len(raw)
    IN  IF n >= 2 /\ raw[n - 1] = CR /\ raw[n] = LF THEN 2
        ELSE IF n >= 1 /\ raw[n] \in {LF, CR} THEN 1
        ELSE 0

\* A stored line without its terminator
Body(raw) == SubSeq(raw, 1, Len(raw) - TermLen(raw))

\* Directory part of a path (up to and including the last separator)
DirPart(p) == SubSeq(p, 1, RFind(p, SEP))

\* A file name without its last dot and what follows it
Stem(b) == IF RFind(b, DOT) = 0 THEN b ELSE SubSeq(b, 1, RFind(b, DOT) - 1)

RECURSIVE Flatten(_)
Flatten(ls) == IF ls = <<>> THEN <<>> ELSE Head(ls) \o Flatten(Tail(ls))

(***************************************************************************)
(* Properties                                                              *)
(***************************************************************************)

\* C1: every input line that starts with '>' is written as '>' + identifier
\* + '_' + (the line with only its leading '>' removed and only its
\* terminator stripped) + newline, whatever else the line contains.
C1_HeaderKeepsItsText ==
    Written =>
        \A i \in 1..Min(Len(OutLines), Len(InLines)) :
            StartsWith(InLines[i], <<GT>>) =>
                OutLines[i] = <<GT>> \o user_string \o <<US>>
                                \o Body(Tail(InLines[i])) \o <<LF>>

C3_LineForLine ==
    Written =>
        /\ Len(OutLines) = infile.pos
        /\ infile.pos <= Len(InLines)
        /\ TextLines(FileData(output_fasta))
             = [i \in 1..infile.pos |->
                  RewriteLine(user_string, TextLines(FileData(input_fasta))[i])]
        /\ pc = "done" => Len(OutLines) = Len(InLines)

C3_Witness ==
    /\ pc = "done"
    /\ Len(InLines) >= 2
    /\ StartsWith(InLines[1], <<GT>>)
    /\ ~StartsWith(InLines[2], <<GT>>)
    /\ Len(OutLines) = Len(InLines)

\* C4 as stated: the output path is the input path without its last
\* '.'-delimited segment, followed by '_edit.fasta', and that is the input
\* path with its directory kept and only the extension of the file name
\* removed.
C4_ExtensionOfFileNameRemoved ==
    PathDerived =>
        /\ output_fasta = Join(DOT, DropLast(Split(input_fasta, DOT))) \o Suffix
        /\ output_fasta = DirPart(input_fasta) \o Stem(Basename(input_fasta)) \o Suffix

\* C4 amended: the output path is the input path cut before its last '.'
\* (the empty string when it has no '.') followed by '_edit.fasta'; the
\* directory is kept and only the extension of the file name removed when
\* the last '.' of the path lies in the file name.
C4_CutAtLastDot ==
    PathDerived =>
        LET d == RFind(input_fasta, DOT)
        IN  /\ output_fasta
                 = (IF d = 0 THEN <<>> ELSE SubSeq(input_fasta, 1, d - 1)) \o Suffix
            /\ d > RFind(input_fasta, SEP) =>
                 output_fasta = DirPart(input_fasta)
                                  \o Stem(Basename(input_fasta)) \o Suffix

C4_Witness ==
    /\ pc = "done"
    /\ input_fasta = <<"a", SEP, "a", DOT, "a", DOT, "a">>
    /\ output_fasta = <<"a", SEP, "a", DOT, "a">> \o Suffix

\* C5: in a run without the second argument the file system is never
\* changed and no file is ever opened.
C5_NoIdentifierNoOutput ==
    [][Len(argv) < 3 =>
         /\ fs' = fs
         /\ infile'.status = "unbound"
         /\ outfile'.status = "unbound"
         /\ pc' \notin {"open_in", "open_out", "loop", "done"}]_vars

C5_Witness ==
    /\ pc = "failed"
    /\ Len(argv) = 2
    /\ output_fasta \in DOMAIN fs
    /\ fs[output_fasta] = OldData

\* C6: a second run, with the same identifier, on the output of a first run
\* turns every header '>' + original of the first input into
\* '>' + id + '_' + id + '_' + original, leaves the other lines as the first
\* run wrote them, and differs from the first output when there is a header.
C6_DoublePrefix ==
    pc = "done" =>
        \A p \in DOMAIN fs :
            OutputFastaPath(p) = input_fasta =>
                LET orig == RawLines(fs[p])
                    first == RawLines(fs[input_fasta])
                    second == RawLines(fs[output_fasta])
                IN  /\ Len(second) = Len(orig)
                    /\ Len(first) = Len(orig)
                    /\ \A i \in 1..Len(orig) :
                          IF StartsWith(orig[i], <<GT>>)
                          THEN second[i] = <<GT>> \o user_string \o <<US>>
                                             \o user_string \o <<US>>
                                             \o Body(Tail(orig[i])) \o <<LF>>
                          ELSE second[i] = first[i]
                    /\ (\E i \in 1..Len(orig) : StartsWith(orig[i], <<GT>>))
                          => fs[output_fasta] # fs[input_fasta]

\* C7: after a completed run the output file exists and holds exactly the
\* rewritten lines of the input, whatever it held before; an empty input
\* gives an existing, empty output.
C7_OutputIsTheRewrittenInput ==
    pc = "done" =>
        /\ output_fasta \in DOMAIN fs
        /\ fs[output_fasta]
             = Flatten([i \in 1..Len(InLines) |->
                          RewriteLine(user_string, Decode(InLines[i]))])
        /\ FileData(input_fasta) = <<>> => fs[output_fasta] = <<>>

C7_Witness ==
    /\ pc = "done"
    /\ runs = 1
    /\ fs[input_fasta] = <<>>
    /\ output_fasta \in DOMAIN fs
    /\ fs[output_fasta] = <<>>

\* A line of the output that carries the prefix of the current run
Prefixed(out) == StartsWith(out, <<GT>> \o user_string \o <<US>>)

\* C8 as stated: a line is rewritten with the prefix exactly when its first
\* non-whitespace character is '>', and copied otherwise.
C8_HeaderByFirstNonBlank ==
    Written =>
        \A i \in 1..Min(Len(OutLines), Len(InLines)) :
            IF StartsWith(LStrip(InLines[i]), <<GT>>)
            THEN Prefixed(OutLines[i])
            ELSE Body(OutLines[i]) = Body(InLines[i])

\* C8 amended: a line is rewritten with the prefix exactly when its first
\* character is '>', and copied otherwise (blank lines and lines with
\* whitespace before a '>' included).
C8_HeaderByFirstCharacter ==
    Written =>
        \A i \in 1..Min(Len(OutLines), Len(InLines)) :
            IF InLines[i][1] = GT
            THEN Prefixed(OutLines[i]) /\ Body(OutLines[i]) # Body(InLines[i])
            ELSE ~Prefixed(OutLines[i]) /\ Body(OutLines[i]) = Body(InLines[i])

C8_Witness ==
    /\ pc = "done"
    /\ \E i \in 1..Len(InLines) :
          /\ InLines[i][1] = SP
          /\ StartsWith(LStrip(InLines[i]), <<GT>>)
          /\ Body(OutLines[i]) = Body(InLines[i])
    /\ \E i \in 1..Len(InLines) : Body(InLines[i]) = <<>>

\* C9: the derived output path is never the input path, and the file open
\* for writing is never the file open for reading.
C9_DistinctFiles ==
    /\ PathDerived => output_fasta # input_fasta
    /\ (infile.status = "open" /\ outfile.status = "open")
           => infile.path # outfile.path

C9_Witness ==
    /\ pc = "loop"
    /\ infile.status = "open"
    /\ outfile.status = "open"
    /\ input_fasta = <<US, "e", "d", "i", "t", DOT, "f", "a", "s", "t", "a">>

\* The input file of the current run is missing or unreadable
InputUnavailable ==
    /\ pc # "l56"
    /\ (input_fasta \notin DOMAIN fs \/ input_fasta \in unreadable)

\* C10: the input is opened before the output: while the input is missing
\* or unreadable no step changes the file system or opens the output, the
\* output is open only after the input was opened, and when the run has
\* ended (normally or by an error) no handle is open.
C10_InputFirstAndHandlesClosed ==
    [][/\ InputUnavailable => (fs' = fs /\ outfile'.status = "unbound")
       /\ outfile'.status = "open" => infile'.status = "open"
       /\ pc' \in {"done", "failed"} =>
            (infile'.status # "open" /\ outfile'.status # "open")]_vars

C10_Witness ==
    /\ pc = "failed"
    /\ Len(argv) = 3
    /\ input_fasta \notin DOMAIN fs
    /\ output_fasta \in DOMAIN fs
    /\ fs[output_fasta] = OldData
    /\ outfile.status = "unbound"
====
